---- MODULE Spec2Model ----
(***************************************************************************)
(* A model of nestjs-mcp: the session-keyed transport multiplexer          *)
(* (McpHttpService), the registration coordinator (McpService) and the     *)
(* bootstrap hook (McpModule.onApplicationBootstrap).                      *)
(*                                                                         *)
(* Node.js runs callbacks to their next await without interleaving, so     *)
(* every action below is the synchronous run of one callback from one      *)
(* suspension point to the next.                                           *)
(***************************************************************************)
EXTENDS Integers, Sequences, FiniteSets, TLC

(***************************************************************************)
(* Bounds of the model.                                                    *)
(***************************************************************************)
MaxConns == 2
MaxMsgs == 2
MaxItems == 3
MaxDirect == 1
MaxArgs == 2
MaxComponents == 2
MaxMethods == 2

(***************************************************************************)
(* Values shared by both halves of the model.                              *)
(***************************************************************************)
\* A field or query parameter that is not there (JavaScript undefined).
Absent == "<undefined>"

\* A variant of Falsy that tests `x === undefined` only.
Falsy_OnlyUndefined(x) == x = Absent

\* JavaScript truthiness of a string-or-undefined value: `!x` is true for
\* undefined and for the empty string.
Falsy(x) == x = Absent \/ x = ""

VARIABLES
    transports,  \* McpHttpService.transports: own keys -> transport
    uuidCount,   \* how many session ids the transports have drawn so far
    server,      \* McpService.server, the one engine instance
    conn,        \* per push connection: the response stream and its transport
    msg,         \* per request lane: the handleMessage call running in it
    options,     \* McpModule.options: the configured transport
    discovered,  \* what ExplorerService.explore yields, per kind, in order
    engine,      \* the registrations the engine (McpServer) holds
    calls,       \* the engine registration calls made so far, in order
    logs,        \* the warnings and errors logged by the registration path
    boot,        \* where onApplicationBootstrap stands
    direct,      \* the last call of a register operation made by the host
    input,       \* the definition a host is about to register directly
    request,     \* the last prompt request the engine validated
    health,      \* the body the health operation returned last
    components,  \* the provider wrappers of the application's modules
    explored     \* what the last call of ExplorerService.explore ended in

httpVars == <<transports, uuidCount, server, conn, msg>>

regVars == <<options, discovered, engine, calls, logs, boot, direct, input,
             request>>

scanVars == <<components, explored>>

vars == <<transports, uuidCount, server, conn, msg, options, discovered,
          engine, calls, logs, boot, direct, input, request, health,
          components, explored>>

(***************************************************************************)
(* Session Transport Multiplexer (McpHttpService).                         *)
(***************************************************************************)
Conns == 1 .. MaxConns
Msgs == 1 .. MaxMsgs

\* The session ids the SDK's SSEServerTransport draws with randomUUID():
\* the n-th draw is a string no earlier draw returned.
UuidPool == <<"uuid-1", "uuid-2", "uuid-3", "uuid-4", "uuid-5", "uuid-6">>
randomUUID(n) == UuidPool[n + 1]

\* `transports` is a plain object literal: a lookup of a key that is not an
\* own property falls through to Object.prototype.
ObjectPrototypeKeys == {"constructor", "__proto__", "toString"}

\* What a property read can give back: a transport (a member of Conns),
\* undefined, or a member inherited from Object.prototype.
Undefined == 0
InheritedMember == -1

\* A variant of Lookup that hands out whatever transport the registry holds.
Lookup_AnyEntry(reg, key) ==
    IF DOMAIN reg # {} THEN reg[CHOOSE k \in DOMAIN reg : TRUE]
    ELSE IF key \in ObjectPrototypeKeys THEN -1
    ELSE 0

\* this.transports[key]
Lookup(reg, key) ==
    IF key \in DOMAIN reg THEN reg[key]
    ELSE IF key \in ObjectPrototypeKeys THEN InheritedMember
    ELSE Undefined

\* if (transport)
Truthy(v) == v # Undefined

\* Whether the value has a handlePostMessage method to call.
HasHandlePostMessage(v) == v \in Conns

\* A variant of RegistryInsert that rebuilds the registry around the new entry.
RegistryInsert_Replace(reg, key, t) == [k \in {key} |-> t]

\* this.transports[sessionId] = transport
RegistryInsert(reg, key, t) ==
    [k \in (DOMAIN reg) \cup {key} |-> IF k = key THEN t ELSE reg[k]]

\* Variants of RegistryDelete: one that deletes nothing, one that clears the
\* whole registry.
RegistryDelete_Noop(reg, key) == reg
RegistryDelete_All(reg, key) == << >>

\* delete this.transports[sessionId]
RegistryDelete(reg, key) ==
    [k \in (DOMAIN reg) \ {key} |-> reg[k]]

NoServer == "<no server>"
\* The McpServer the constructor of McpService builds.
TheServer == "McpServer#1"

\* A variant of getServer that builds a server on each call.
getServer_NewInstance == "McpServer#2"

\* this.mcpService.getServer()
getServer == server

\* destroyed: the response has been destroyed and its close event emitted;
\* closed: the close listener of handleSSE has run.
NewConn ==
    [pc |-> "new", sessionId |-> Absent, headersSent |-> FALSE, status |-> 0,
     ended |-> FALSE, listener |-> FALSE, closed |-> FALSE,
     transportClose |-> "none", errorLogged |-> FALSE,
     engineUsed |-> NoServer, destroyed |-> FALSE]

IdleMsg ==
    [pc |-> "idle", query |-> Absent, target |-> Undefined, status |-> 0,
     by |-> "none", logged |-> "none"]

\* No health response yet.
NoHealth == [status |-> Absent, timestamp |-> << >>]

\* What a forged or stale request may carry besides the ids in use.
ForgedIds == {"forged-id", "constructor"}
QueryValues ==
    {Absent, ""} \cup {UuidPool[i] : i \in 1 .. MaxConns} \cup ForgedIds

\* How the engine's connect(transport) can end.
ConnectOutcomes == {"resolved", "rejectedBeforeHeaders", "rejectedAfterHeaders"}
\* How transport.handlePostMessage(req, res) can end.
PostOutcomes == {"resolved", "threwAfterResponse", "threwBeforeResponse"}
\* How transport.close() can end.
CloseOutcomes == {"resolved", "rejected"}

InitHttp ==
    /\ transports = << >>
    /\ uuidCount = 0
    /\ server = TheServer
    /\ conn = [c \in Conns |-> NewConn]
    /\ msg = [m \in Msgs |-> IdleMsg]
    /\ health = NoHealth

\* The client goes away before the host calls handleSSE: the response is
\* destroyed and its one close event is emitted with no listener on it.
ClientDestroy(c) ==
    /\ conn[c].pc = "new"
    /\ ~conn[c].destroyed
    /\ conn' = [conn EXCEPT ![c] = [@ EXCEPT !.destroyed = TRUE]]
    /\ UNCHANGED <<health, scanVars, transports, uuidCount, server, msg, regVars>>

\* handleSSE(res), up to its first suspension point: the transport is built
\* and registered, the close listener installed, and connect started.
\* send() on a destroyed response writes nothing: headersSent stays false.
HandleSSE(c) ==
    /\ conn[c].pc = "new"
    /\ uuidCount < Len(UuidPool)
    /\ LET sessionId == randomUUID(uuidCount)
           srv == getServer
       IN /\ uuidCount' = uuidCount + 1
          /\ transports' = RegistryInsert(transports, sessionId, c)
          /\ IF srv = NoServer
             THEN conn' = [conn EXCEPT ![c] =
                      [@ EXCEPT !.pc = "returned", !.sessionId = sessionId,
                                !.listener = TRUE, !.errorLogged = TRUE,
                                !.status = IF @ = 0 /\ ~conn[c].headersSent
                                           THEN 500 ELSE @,
                                !.headersSent = @ \/ ~conn[c].destroyed]]
             ELSE conn' = [conn EXCEPT ![c] =
                      [@ EXCEPT !.pc = "connecting", !.sessionId = sessionId,
                                !.listener = TRUE, !.engineUsed = srv]]
    /\ UNCHANGED <<health, scanVars, server, msg, regVars>>

\* A variant of ConnectSettle whose catch block only logs.
ConnectSettle_LogOnly(c, outcome) ==
    /\ conn[c].pc = "connecting"
    /\ outcome \in ConnectOutcomes
    /\ conn' = [conn EXCEPT ![c] =
          CASE outcome = "resolved" ->
                 [@ EXCEPT !.pc = "connected", !.headersSent = TRUE,
                           !.status = 200]
            [] outcome = "rejectedBeforeHeaders" ->
                 [@ EXCEPT !.pc = "failed", !.errorLogged = TRUE]
            [] outcome = "rejectedAfterHeaders" ->
                 [@ EXCEPT !.pc = "failed", !.errorLogged = TRUE,
                           !.status = 200, !.headersSent = TRUE]]
    /\ UNCHANGED <<health, scanVars, transports, uuidCount, server, msg,
                   regVars>>

\* The continuation of `await server.connect(transport)`: it resolved, or it
\* rejected and the catch block answers 500 or ends the stream.
ConnectSettle(c, outcome) ==
    /\ conn[c].pc = "connecting"
    /\ outcome \in ConnectOutcomes
    /\ conn' = [conn EXCEPT ![c] =
          CASE outcome = "resolved" ->
                 [@ EXCEPT !.pc = "connected", !.headersSent = TRUE,
                           !.status = 200]
            [] outcome = "rejectedBeforeHeaders" ->
                 \* send() on a response already destroyed by the client's
                 \* disconnect, before or after handleSSE was entered,
                 \* writes nothing: headersSent stays false.
                 [@ EXCEPT !.pc = "failed", !.errorLogged = TRUE,
                           !.status = IF conn[c].headersSent THEN @ ELSE 500,
                           !.ended = IF conn[c].headersSent THEN TRUE ELSE @,
                           !.headersSent = @ \/ ~conn[c].destroyed]
            [] outcome = "rejectedAfterHeaders" ->
                 [@ EXCEPT !.pc = "failed", !.errorLogged = TRUE,
                           !.status = 200, !.headersSent = TRUE,
                           !.ended = TRUE]]
    /\ UNCHANGED <<health, scanVars, transports, uuidCount, server, msg, regVars>>

\* The response's close event reaches the listener installed by
\* res.on("close", ...): the entry is deleted and transport.close() started.
\* The event is emitted once, so a response that was destroyed before the
\* listener was installed never delivers it.
CloseListener(c) ==
    /\ conn[c].listener
    /\ ~conn[c].closed
    /\ ~conn[c].destroyed
    /\ transports' = RegistryDelete(transports, conn[c].sessionId)
    /\ conn' = [conn EXCEPT ![c] =
                  [@ EXCEPT !.closed = TRUE, !.destroyed = TRUE,
                            !.transportClose = "started"]]
    /\ UNCHANGED <<health, scanVars, uuidCount, server, msg, regVars>>

\* transport.close() settles; a rejection is logged by the .catch handler.
CloseSettle(c, outcome) ==
    /\ conn[c].transportClose = "started"
    /\ outcome \in CloseOutcomes
    /\ conn' = [conn EXCEPT ![c] =
                  [@ EXCEPT !.transportClose = outcome,
                            !.errorLogged = IF outcome = "rejected"
                                            THEN TRUE ELSE @]]
    /\ UNCHANGED <<health, scanVars, transports, uuidCount, server, msg, regVars>>

\* handleMessage(req, res), up to its first suspension point, for a request
\* whose sessionId query parameter is q.
HandleMessage(m, q) ==
    /\ msg[m].pc \in {"idle", "done"}
    /\ q \in QueryValues
    /\ LET sessionId == q
           transport == Lookup(transports, sessionId)
       IN msg' = [msg EXCEPT ![m] =
            IF Falsy(sessionId)
            THEN [pc |-> "done", query |-> q, target |-> Undefined,
                  status |-> 400, by |-> "service", logged |-> "warn"]
            ELSE IF Truthy(transport)
            THEN IF HasHandlePostMessage(transport)
                 THEN [pc |-> "awaiting", query |-> q, target |-> transport,
                       status |-> 0, by |-> "none", logged |-> "none"]
                 \* calling a member that is not a function throws a
                 \* TypeError inside the try block
                 ELSE [pc |-> "done", query |-> q, target |-> Undefined,
                       status |-> 500, by |-> "service", logged |-> "error"]
            ELSE [pc |-> "done", query |-> q, target |-> Undefined,
                  status |-> 404, by |-> "service", logged |-> "warn"]]
    /\ UNCHANGED <<health, scanVars, transports, uuidCount, server, conn, regVars>>

\* A variant of HandlePostMessageSettle that drops the session of a handler
\* that raised.
HandlePostMessageSettle_DropsSession(m, outcome) ==
    /\ msg[m].pc = "awaiting"
    /\ outcome \in PostOutcomes
    /\ msg' = [msg EXCEPT ![m] =
          CASE outcome = "resolved" ->
                 [@ EXCEPT !.pc = "done", !.status = 202, !.by = "transport"]
            [] outcome = "threwAfterResponse" ->
                 [@ EXCEPT !.pc = "done", !.status = 500, !.by = "transport",
                           !.logged = "error"]
            [] outcome = "threwBeforeResponse" ->
                 [@ EXCEPT !.pc = "done", !.status = 500, !.by = "service",
                           !.logged = "error"]]
    /\ transports' = IF outcome = "resolved" THEN transports
                     ELSE [k \in (DOMAIN transports) \ {msg[m].query} |->
                              transports[k]]
    /\ UNCHANGED <<health, scanVars, uuidCount, server, conn, regVars>>

\* The continuation of `await transport.handlePostMessage(req, res)`.
HandlePostMessageSettle(m, outcome) ==
    /\ msg[m].pc = "awaiting"
    /\ outcome \in PostOutcomes
    /\ msg' = [msg EXCEPT ![m] =
          CASE outcome = "resolved" ->
                 [@ EXCEPT !.pc = "done", !.status = 202, !.by = "transport"]
            [] outcome = "threwAfterResponse" ->
                 [@ EXCEPT !.pc = "done", !.status = 500, !.by = "transport",
                           !.logged = "error"]
            [] outcome = "threwBeforeResponse" ->
                 [@ EXCEPT !.pc = "done", !.status = 500, !.by = "service",
                           !.logged = "error"]]
    /\ UNCHANGED <<health, scanVars, transports, uuidCount, server, conn, regVars>>

(***************************************************************************)
(* The health operation of McpHttpController.                              *)
(***************************************************************************)
\* The instants `new Date()` can give, in milliseconds since the epoch
\* (instants of January 1970, which is what toISOString below covers).
Clock == {0, 90061001}

MsPerSecond == 1000
MsPerMinute == 60 * MsPerSecond
MsPerHour == 60 * MsPerMinute
MsPerDay == 24 * MsPerHour

DigitChars == <<"0", "1", "2", "3", "4", "5", "6", "7", "8", "9">>

\* The decimal digits of n, zero-padded to width w, as characters.
RECURSIVE Digits(_, _)
Digits(n, w) ==
    IF w = 0 THEN << >>
    ELSE Append(Digits(n \div 10, w - 1), DigitChars[(n % 10) + 1])

\* Date.prototype.toISOString(): YYYY-MM-DDTHH:mm:ss.sssZ in UTC, as the
\* sequence of its characters.
toISOString(ms) ==
    Digits(1970, 4) \o <<"-">> \o Digits(1, 2) \o <<"-">>
      \o Digits((ms \div MsPerDay) + 1, 2) \o <<"T">>
      \o Digits((ms % MsPerDay) \div MsPerHour, 2) \o <<":">>
      \o Digits((ms % MsPerHour) \div MsPerMinute, 2) \o <<":">>
      \o Digits((ms % MsPerMinute) \div MsPerSecond, 2) \o <<".">>
      \o Digits(ms % MsPerSecond, 3) \o <<"Z">>

\* A variant of HealthBody that reports on the session registry.
HealthBody_RegistryAware(now) ==
    [status |-> IF DOMAIN transports = {} THEN "idle" ELSE "ok",
     timestamp |-> toISOString(now)]

\* { status: 'ok', timestamp: new Date().toISOString() }
HealthBody(now) == [status |-> "ok", timestamp |-> toISOString(now)]

\* healthCheck(), called at instant `now`.
HealthCheck(now) ==
    /\ health' = HealthBody(now)
    /\ UNCHANGED <<httpVars, regVars, scanVars>>

(***************************************************************************)
(* Registration Coordinator (McpService) and the engine it writes into.    *)
(***************************************************************************)
Kinds == {"resource", "tool", "prompt"}
Names == {"a", "b"}
\* A definition's name field: missing, empty, or a name.
NameValues == {Absent, ""} \cup Names

\* An optional structured value: << >> when it is undefined, <<v>> otherwise.
None == << >>
Some(v) == <<v>>

\* One engine registration call. `form` spells the positional arguments the
\* call passes; a field the form does not pass is Absent (or << >>).
EngineCall(op, form, name, description, target, isTemplate, metadata, shape, schema, handler) ==
    [op |-> op, form |-> form, name |-> name, description |-> description,
     target |-> target, isTemplate |-> isTemplate, metadata |-> metadata,
     shape |-> shape, schema |-> schema, handler |-> handler]

\* The namespace and key under which the engine files a call: fixed
\* resources by uri, resource templates, tools and prompts by name.
EngineNamespace(call) ==
    IF call.op = "resource"
    THEN IF call.isTemplate \/ call.target = Absent
         THEN "resourceTemplate" ELSE "resource"
    ELSE call.op

EngineKey(call) ==
    IF EngineNamespace(call) = "resource" THEN call.target ELSE call.name

\* A variant of EngineRegister that drops what it holds when it refuses a key.
EngineRegister_ClearOnConflict(e, call) ==
    IF \E r \in e : r.ns = EngineNamespace(call) /\ r.key = EngineKey(call)
    THEN [engine |-> {}, raised |-> TRUE]
    ELSE [engine |-> e \cup {[ns |-> EngineNamespace(call),
                              key |-> EngineKey(call), call |-> call]},
          raised |-> FALSE]

\* server.resource / server.tool / server.prompt: the engine refuses a key
\* that is already registered in the namespace by raising.
EngineRegister(e, call) ==
    IF \E r \in e : r.ns = EngineNamespace(call) /\ r.key = EngineKey(call)
    THEN [engine |-> e, raised |-> TRUE]
    ELSE [engine |-> e \cup {[ns |-> EngineNamespace(call),
                              key |-> EngineKey(call), call |-> call]},
          raised |-> FALSE]

\* How a register operation ends: the engine state, the engine calls it
\* made, what it logged (warn and error level), and whether it returned the
\* engine call's value ("value"), returned nothing ("void") or raised.
Skipped(e, level, tag) ==
    [engine |-> e, calls |-> << >>, logs |-> << <<level, tag>> >>,
     outcome |-> "void"]

Threw(e) ==
    [engine |-> e, calls |-> << >>, logs |-> << >>, outcome |-> "raised"]

Invoked(e, call, returnsValue, lg) ==
    LET r == EngineRegister(e, call)
    IN [engine |-> r.engine, calls |-> <<call>>, logs |-> lg,
        outcome |-> IF r.raised THEN "raised"
                    ELSE IF returnsValue THEN "value" ELSE "void"]

\* A variant of isTemplateResource that looks at the type of the field.
isTemplateResource_ByType(definition) == definition.uriTemplateType = "string"

\* isTemplateResource(options): 'uriTemplate' in options
isTemplateResource(definition) == definition.hasUriTemplate

\* A variant of registerResource without the name check.
registerResource_NoNameCheck(e, definitionOpt, handler) ==
    IF definitionOpt = None THEN Threw(e)
    ELSE LET definition == definitionOpt[1]
         IN Invoked(e, EngineCall("resource", "name,uri,metadata,handler",
                        definition.name, Absent, definition.uri, FALSE,
                        "{}", Absent, << >>, handler), TRUE, << >>)

\* registerResource(definition, handler)
registerResource(e, definitionOpt, handler) ==
    IF definitionOpt = None
    THEN Threw(e)  \* reading .name of undefined is a TypeError
    ELSE LET definition == definitionOpt[1]
             metadata == IF definition.metadata = Absent
                         THEN "{}" ELSE definition.metadata
         IN IF Falsy(definition.name)
            THEN Skipped(e, "warn", "resource missing name")
            ELSE IF isTemplateResource(definition)
            THEN IF definition.uriTemplateType = "string"
                 THEN Invoked(e,
                        EngineCall("resource", "name,template,metadata,handler",
                          definition.name, Absent, definition.uriTemplate,
                          TRUE, metadata, Absent, << >>, handler),
                        TRUE, << >>)
                 ELSE IF definition.uriTemplateType = "ResourceTemplate"
                 THEN Invoked(e,
                        EngineCall("resource", "name,template,metadata,handler",
                          definition.name, Absent, definition.uriTemplate,
                          TRUE, metadata, Absent, << >>, handler),
                        TRUE, << >>)
                 ELSE Skipped(e, "error", "invalid uriTemplate type")
            ELSE Invoked(e,
                   EngineCall("resource", "name,uri,metadata,handler",
                     definition.name, Absent, definition.uri, FALSE,
                     metadata, Absent, << >>, handler),
                   TRUE, << >>)

\* A variant of PromptArgEntry that reads `required !== false`.
PromptArgEntry_RequiredUnlessFalse(arg) ==
    [optional |-> arg.required = "false", description |-> arg.description]

\* The schema entry of one named argument: z.string(), described when the
\* argument has a description, optional-wrapped unless `required` is truthy.
PromptArgEntry(arg) ==
    [optional |-> arg.required # "true", description |-> arg.description]

\* argsSchema[arg.name] = ...
SchemaPut(schema, key, entry) ==
    [k \in (DOMAIN schema) \cup {key} |->
        IF k = key THEN entry ELSE schema[k]]

\* The loop over definition.arguments, from argument i on: the schema built
\* and one warning per argument without a name.
RECURSIVE BuildArgsSchema(_, _, _, _)
BuildArgsSchema(arguments, i, argsSchema, warnings) ==
    IF i > Len(arguments)
    THEN [argsSchema |-> argsSchema, warnings |-> warnings]
    ELSE IF Falsy(arguments[i].name)
    THEN BuildArgsSchema(arguments, i + 1, argsSchema,
             Append(warnings, <<"warn", "prompt argument without name">>))
    ELSE BuildArgsSchema(arguments, i + 1,
             SchemaPut(argsSchema, arguments[i].name,
                       PromptArgEntry(arguments[i])),
             warnings)

\* A variant of registerPrompt without the fallback for a schema that came
\* out empty.
registerPrompt_NoFallback(e, definitionOpt, handler) ==
    IF definitionOpt = None
    THEN Threw(e)
    ELSE LET definition == definitionOpt[1]
             description == IF Falsy(definition.description)
                            THEN "" ELSE definition.description
             built == BuildArgsSchema(definition.arguments, 1, << >>, << >>)
         IN IF Falsy(definition.name)
            THEN Skipped(e, "warn", "prompt missing name")
            ELSE IF ~definition.hasArguments \/ Len(definition.arguments) = 0
            THEN Invoked(e,
                   EngineCall("prompt", "name,description,handler",
                     definition.name, description, Absent, FALSE, Absent,
                     Absent, << >>, handler),
                   TRUE, << >>)
            ELSE Invoked(e,
                   EngineCall("prompt", "name,description,schema,handler",
                     definition.name, description, Absent, FALSE, Absent,
                     Absent, built.argsSchema, handler),
                   TRUE, built.warnings)

\* registerPrompt(definition, handler)
registerPrompt(e, definitionOpt, handler) ==
    IF definitionOpt = None
    THEN Threw(e)  \* reading .name of undefined is a TypeError
    ELSE LET definition == definitionOpt[1]
             description == IF Falsy(definition.description)
                            THEN "" ELSE definition.description
             built == BuildArgsSchema(definition.arguments, 1, << >>, << >>)
         IN IF Falsy(definition.name)
            THEN Skipped(e, "warn", "prompt missing name")
            ELSE IF ~definition.hasArguments \/ Len(definition.arguments) = 0
            THEN Invoked(e,
                   EngineCall("prompt", "name,description,handler",
                     definition.name, description, Absent, FALSE, Absent,
                     Absent, << >>, handler),
                   TRUE, << >>)
            ELSE IF DOMAIN built.argsSchema = {}
            THEN Invoked(e,
                   EngineCall("prompt", "name,description,handler",
                     definition.name, description, Absent, FALSE, Absent,
                     Absent, << >>, handler),
                   TRUE,
                   Append(built.warnings, <<"warn", "prompt empty schema">>))
            ELSE Invoked(e,
                   EngineCall("prompt", "name,description,schema,handler",
                     definition.name, description, Absent, FALSE, Absent,
                     Absent, built.argsSchema, handler),
                   TRUE, built.warnings)

\* A variant of ShapeKeyCount that takes every shape object as non-empty.
ShapeKeyCount_NeverEmpty(paramsSchema) == 1

\* Object.keys(paramsSchema).length
ShapeKeyCount(paramsSchema) == IF paramsSchema = "{}" THEN 0 ELSE 1

\* registerTool(definition, handler)
registerTool(e, definitionOpt, handler) ==
    IF definitionOpt = None
    THEN Skipped(e, "warn", "tool missing name")
    ELSE LET definition == definitionOpt[1]
             description == definition.description
             paramsSchema == definition.paramsSchema
         IN IF Falsy(definition.name)
            THEN Skipped(e, "warn", "tool missing name")
            ELSE IF paramsSchema # Absent /\ ShapeKeyCount(paramsSchema) > 0
            THEN IF ~Falsy(description)
                 THEN Invoked(e,
                        EngineCall("tool", "name,description,shape,handler",
                          definition.name, description, Absent, FALSE,
                          Absent, paramsSchema, << >>, handler),
                        TRUE, << >>)
                 ELSE Invoked(e,
                        EngineCall("tool", "name,shape,handler",
                          definition.name, Absent, Absent, FALSE, Absent,
                          paramsSchema, << >>, handler),
                        FALSE, << >>)
            ELSE IF ~Falsy(description)
                 THEN Invoked(e,
                        EngineCall("tool", "name,description,handler",
                          definition.name, description, Absent, FALSE,
                          Absent, Absent, << >>, handler),
                        FALSE, << >>)
                 ELSE Invoked(e,
                        EngineCall("tool", "name,handler",
                          definition.name, Absent, Absent, FALSE, Absent,
                          Absent, << >>, handler),
                        FALSE, << >>)

\* The register operation of a kind.
Register(kind, e, definitionOpt, handler) ==
    CASE kind = "resource" -> registerResource(e, definitionOpt, handler)
      [] kind = "tool" -> registerTool(e, definitionOpt, handler)
      [] kind = "prompt" -> registerPrompt(e, definitionOpt, handler)

\* The engine validating the arguments of a prompt request against the
\* registered schema (z.object(argsSchema)): every entry that is not
\* optional must be present; keys the schema does not name are ignored.
SchemaAccepts(schema, args) ==
    \A k \in DOMAIN schema : schema[k].optional \/ k \in DOMAIN args

(***************************************************************************)
(* The definitions the decorators can carry.                               *)
(***************************************************************************)
FixedResource(name, uri, metadata) ==
    [name |-> name, hasUriTemplate |-> FALSE, uriTemplateType |-> "undefined",
     uriTemplate |-> Absent, uri |-> uri, metadata |-> metadata]

\* uriTemplateType is what `typeof` / `instanceof` tell of the field.
TemplateResource(name, uriTemplateType, metadata) ==
    [name |-> name, hasUriTemplate |-> TRUE,
     uriTemplateType |-> uriTemplateType, uriTemplate |-> "res://{id}",
     uri |-> Absent, metadata |-> metadata]

ToolDef(name, description, paramsSchema) ==
    [name |-> name, description |-> description, paramsSchema |-> paramsSchema]

PromptDef(name, description, hasArguments, arguments) ==
    [name |-> name, description |-> description,
     hasArguments |-> hasArguments, arguments |-> arguments]

PromptArg(name, description, required) ==
    [name |-> name, description |-> description, required |-> required]

\* The sequences over S of length at most n.
SeqUpTo(S, n) == UNION {[1 .. k -> S] : k \in 0 .. n}

\* What the bootstrap model lets a decorated method carry, per kind.
\* << >> is a decorator applied without options.
BootDefs(kind) ==
    CASE kind = "resource" ->
           {None}
           \cup {Some(FixedResource(n, "u1", Absent)) : n \in NameValues}
           \cup {Some(FixedResource(n, "u2", Absent)) : n \in Names}
           \cup {Some(TemplateResource(n, t, Absent)) :
                   n \in Names, t \in {"string", "number"}}
      [] kind = "tool" ->
           {None}
           \cup {Some(ToolDef(n, "d", "{x}")) : n \in {Absent} \cup Names}
      [] kind = "prompt" ->
           {None}
           \cup {Some(PromptDef(n, "d", TRUE,
                        <<PromptArg("a", Absent, "true")>>)) :
                   n \in {""} \cup Names}

\* What the bootstrap model lets a host pass to a register operation it
\* calls itself.
DirectDefs(kind) ==
    CASE kind = "resource" ->
           {Some(FixedResource(n, "u1", Absent)) : n \in {Absent, "", "a"}}
      [] kind = "tool" ->
           {Some(ToolDef(n, "d", "{x}")) : n \in {Absent, "", "a"}}
      [] kind = "prompt" ->
           {Some(PromptDef(n, "d", FALSE, << >>)) : n \in {Absent, "", "a"}}

\* What a host calling a register operation directly can pass.
ArgNames == {"a", "b"}
PromptArgs ==
    {PromptArg(n, d, r) : n \in {Absent, ""} \cup ArgNames,
                          d \in {Absent, "d"},
                          r \in {Absent, "true", "false"}}
FullDefs(kind) ==
    CASE kind = "resource" ->
           {None}
           \cup {Some(FixedResource(n, u, m)) :
                   n \in NameValues, u \in {Absent, "u1"}, m \in {Absent, "m"}}
           \cup {Some(TemplateResource(n, t, m)) :
                   n \in NameValues,
                   t \in {"string", "ResourceTemplate", "number"},
                   m \in {Absent, "m"}}
      [] kind = "tool" ->
           {None}
           \cup {Some(ToolDef(n, d, p)) :
                   n \in NameValues, d \in {Absent, "", "d"},
                   p \in {Absent, "{}", "{x}"}}
      [] kind = "prompt" ->
           {None}
           \cup {Some(PromptDef(n, d, FALSE, << >>)) :
                   n \in NameValues, d \in {Absent, "d"}}
           \cup {Some(PromptDef(n, d, TRUE, args)) :
                   n \in NameValues, d \in {Absent, "d"},
                   args \in SeqUpTo(PromptArgs, MaxArgs)}

\* The arguments of a prompt request: strings for some of the argument names.
PromptInputs == UNION {[S -> {"v"}] : S \in SUBSET ArgNames}

TransportTypes == {"stdio", "sse", "none"}

(***************************************************************************)
(* Bootstrap Hook (McpModule).                                             *)
(***************************************************************************)
\* A variant of PhaseOrder that registers the tools first.
PhaseOrder_ToolsFirst == <<"tool", "resource", "prompt">>

\* The order of the three loops of registerMcpHandlers.
PhaseOrder == <<"resource", "tool", "prompt">>

NoInput == [kind |-> "none", def |-> None]
NoRequest == [name |-> Absent, args |-> << >>, verdict |-> "none"]
\* engineUsed: the engine instance (this.server) the call was made on.
NoDirect ==
    [count |-> 0, kind |-> "none", outcome |-> "none", engineUsed |-> NoServer]

\* Where the forEach loops stand after the last item of phase p - 1: at the
\* first item of the next kind that has any, or past all registrations.
RECURSIVE PhaseFrom(_, _)
PhaseFrom(disc, p) ==
    IF p > Len(PhaseOrder)
    THEN [pc |-> "registered", idx |-> 0, stdio |-> "none",
          engineUsed |-> NoServer, registeredOn |-> NoServer]
    ELSE IF Len(disc[PhaseOrder[p]]) > 0
    THEN [pc |-> PhaseOrder[p], idx |-> 1, stdio |-> "none",
          engineUsed |-> NoServer, registeredOn |-> NoServer]
    ELSE PhaseFrom(disc, p + 1)

PhaseIndex(kind) == CHOOSE p \in 1 .. Len(PhaseOrder) : PhaseOrder[p] = kind

\* metadata.options?.name
OptionsName(optionsOpt) == IF optionsOpt = None THEN Absent ELSE optionsOpt[1].name

\* One iteration of a forEach of registerMcpHandlers: resources go straight
\* to registerResource; tools and prompts without a name are skipped with a
\* warning before the service is called.
RegisterDiscovered(kind, e, optionsOpt, handler) ==
    IF kind = "resource"
    THEN registerResource(e, optionsOpt, handler)
    ELSE IF Falsy(OptionsName(optionsOpt))
    THEN Skipped(e, "warn", "handler missing name in options")
    ELSE Register(kind, e, optionsOpt, handler)

\* No call of explore yet.
NoScan == [kind |-> "none", outcome |-> "none", items |-> << >>]

\* No provider scanned.
InitScan ==
    /\ components = << >>
    /\ explored = NoScan

InitReg ==
    /\ engine = {}
    /\ calls = << >>
    /\ logs = << >>
    /\ boot = [pc |-> "idle", idx |-> 0, stdio |-> "none",
               engineUsed |-> NoServer, registeredOn |-> NoServer]
    /\ direct = NoDirect
    /\ request = NoRequest

\* onApplicationBootstrap starts: registerMcpHandlers reaches its first item.
BootstrapStart ==
    /\ boot.pc = "idle"
    /\ boot' = PhaseFrom(discovered, 1)
    /\ UNCHANGED <<health, scanVars, options, discovered, engine, calls, logs, direct, input,
                   request, httpVars>>

\* One forEach iteration. An exception leaves registerMcpHandlers and
\* onApplicationBootstrap, which has no handler around it. An engine call
\* is made on this.server of the McpService (registeredOn).
RegisterStep ==
    /\ boot.pc \in Kinds
    /\ LET kind == boot.pc
           item == discovered[kind][boot.idx]
           r == RegisterDiscovered(kind, engine, item, boot.idx)
           on == IF r.calls # << >> THEN server ELSE boot.registeredOn
       IN /\ engine' = r.engine
          /\ calls' = calls \o r.calls
          /\ logs' = logs \o r.logs
          /\ boot' = IF r.outcome = "raised"
                     THEN [boot EXCEPT !.pc = "raised", !.registeredOn = on]
                     ELSE IF boot.idx < Len(discovered[kind])
                     THEN [boot EXCEPT !.idx = boot.idx + 1,
                                       !.registeredOn = on]
                     ELSE [PhaseFrom(discovered, PhaseIndex(kind) + 1)
                              EXCEPT !.registeredOn = on]
    /\ UNCHANGED <<health, scanVars, options, discovered, direct, input, request, httpVars>>

\* After the registrations: only for the stdio transport a
\* StdioServerTransport is built and connect awaited.
BootstrapTransport ==
    /\ boot.pc = "registered"
    /\ boot' = IF options.hasTransport /\ options.transport = "stdio"
               THEN [boot EXCEPT !.pc = "connecting", !.stdio = "connecting",
                                 !.engineUsed = getServer]
               ELSE [boot EXCEPT !.pc = "done"]
    /\ UNCHANGED <<health, scanVars, options, discovered, engine, calls, logs, direct, input,
                   request, httpVars>>

\* A variant of StdioConnectSettle without the catch block.
StdioConnectSettle_Uncaught(outcome) ==
    /\ boot.pc = "connecting"
    /\ outcome \in {"resolved", "rejected"}
    /\ boot' = IF outcome = "resolved"
               THEN [boot EXCEPT !.pc = "done", !.stdio = "connected"]
               ELSE [boot EXCEPT !.pc = "raised", !.stdio = "failed"]
    /\ UNCHANGED <<health, scanVars, options, discovered, engine, calls, logs, direct, input,
                   request, httpVars>>

\* The continuation of `await server.connect(transport)` in the hook; a
\* rejection is caught and logged.
StdioConnectSettle(outcome) ==
    /\ boot.pc = "connecting"
    /\ outcome \in {"resolved", "rejected"}
    /\ boot' = [boot EXCEPT !.pc = "done",
                            !.stdio = IF outcome = "resolved"
                                      THEN "connected" ELSE "failed"]
    /\ logs' = IF outcome = "rejected"
               THEN Append(logs, <<"error", "stdio connect failed">>)
               ELSE logs
    /\ UNCHANGED <<health, scanVars, options, discovered, engine, calls, direct, input, request,
                   httpVars>>

\* A provider of the host calls registerResource / registerTool /
\* registerPrompt on the exported McpService itself: before the hook has
\* run, while it waits for the stdio connect, or after it ended. The hook
\* runs from its start to that await without yielding, so no call falls
\* between two of its registrations.
DirectRegister(kind, definitionOpt) ==
    /\ boot.pc \notin Kinds \cup {"registered"}
    /\ direct.count < MaxDirect
    /\ LET r == Register(kind, engine, definitionOpt, 0)
       IN /\ engine' = r.engine
          /\ calls' = calls \o r.calls
          /\ logs' = logs \o r.logs
          /\ direct' = [count |-> direct.count + 1, kind |-> kind,
                        outcome |-> r.outcome,
                        engineUsed |-> IF r.calls # << >> THEN server
                                       ELSE direct.engineUsed]
    /\ UNCHANGED <<health, scanVars, options, discovered, boot, input, request, httpVars>>

\* The object graphs the bootstrap model starts from: at most MaxItems
\* decorated methods over the three kinds.
DiscoveredGraphs ==
    {d \in [resource : SeqUpTo(BootDefs("resource"), MaxItems),
            tool : SeqUpTo(BootDefs("tool"), MaxItems),
            prompt : SeqUpTo(BootDefs("prompt"), MaxItems)] :
        Len(d.resource) + Len(d.tool) + Len(d.prompt) <= MaxItems}

ModuleOptions ==
    {[hasTransport |-> FALSE, transport |-> Absent]}
    \cup {[hasTransport |-> TRUE, transport |-> t] : t \in TransportTypes}

InitBoot ==
    /\ InitHttp
    /\ InitReg
    /\ options \in ModuleOptions
    /\ discovered \in DiscoveredGraphs
    /\ input = NoInput
    /\ InitScan

NextBoot ==
    \/ BootstrapStart
    \/ RegisterStep
    \/ BootstrapTransport
    \/ \E o \in {"resolved", "rejected"} : StdioConnectSettle(o)
    \/ \E kind \in Kinds : \E d \in DirectDefs(kind) : DirectRegister(kind, d)

SpecBoot == InitBoot /\ [][NextBoot]_vars

(***************************************************************************)
(* A register operation applied to one definition, and the engine then     *)
(* validating prompt requests against what was registered.                 *)
(***************************************************************************)
InitReg1 ==
    /\ InitHttp
    /\ InitReg
    /\ options = [hasTransport |-> FALSE, transport |-> Absent]
    /\ discovered = [resource |-> << >>, tool |-> << >>, prompt |-> << >>]
    /\ \E kind \in Kinds : \E d \in FullDefs(kind) :
           input = [kind |-> kind, def |-> d]
    /\ InitScan

\* The host registers the definition it holds.
ApplyRegister ==
    /\ input.kind \in Kinds
    /\ direct.count < MaxDirect
    /\ LET r == Register(input.kind, engine, input.def, 0)
       IN /\ engine' = r.engine
          /\ calls' = calls \o r.calls
          /\ logs' = logs \o r.logs
          /\ direct' = [count |-> direct.count + 1, kind |-> input.kind,
                        outcome |-> r.outcome,
                        engineUsed |-> IF r.calls # << >> THEN server
                                       ELSE direct.engineUsed]
    /\ UNCHANGED <<health, scanVars, options, discovered, boot, input, request, httpVars>>

\* A client requests a registered prompt with arguments `args`; the engine
\* validates them when the prompt was registered with a schema.
GetPrompt(name, args) ==
    /\ \E r \in engine : r.ns = "prompt" /\ r.key = name
    /\ LET r == CHOOSE x \in engine : x.ns = "prompt" /\ x.key = name
       IN request' =
            [name |-> name, args |-> args,
             verdict |-> IF r.call.form = "name,description,schema,handler"
                            /\ ~SchemaAccepts(r.call.schema, args)
                         THEN "rejected" ELSE "accepted"]
    /\ UNCHANGED <<health, scanVars, options, discovered, engine, calls, logs, boot, direct,
                   input, httpVars>>

NextReg ==
    \/ ApplyRegister
    \/ \E n \in Names, args \in PromptInputs : GetPrompt(n, args)

SpecReg == InitReg1 /\ [][NextReg]_vars

(***************************************************************************)
(* Discovery (ExplorerService.explore).                                    *)
(***************************************************************************)
\* What wrapper.instance can be: a falsy value, a truthy value that is not
\* an object, an object without a constructor, or an ordinary instance.
InstanceKinds == {"undefined", "primitive", "noConstructor", "object"}

\* What reading instance[methodName] can give for a method name of the
\* prototype: the method, a falsy value, a truthy value that is not an
\* object (an own property shadowing the method), or an exception (an own
\* accessor that throws).
MethodAccess == {"function", "falsy", "primitive", "throws"}

\* A method: how reading it ends and which decorator's metadata it carries.
Methods ==
    {[access |-> "function", metadata |-> k] : k \in Kinds \cup {"none"}}
    \cup {[access |-> a, metadata |-> "none"] :
            a \in MethodAccess \ {"function"}}

Wrappers ==
    {[instance |-> k, methods |-> << >>] : k \in InstanceKinds \ {"object"}}
    \cup {[instance |-> "object", methods |-> ms] :
            ms \in SeqUpTo(Methods, MaxMethods)}

ComponentGraphs == SeqUpTo(Wrappers, MaxComponents)

\* methodNames.forEach(...), from method i of component c on: the items
\* pushed, and whether an exception left the loop.
RECURSIVE ScanMethods(_, _, _, _, _)
ScanMethods(methods, i, c, kind, acc) ==
    IF i > Len(methods)
    THEN [items |-> acc, raised |-> FALSE]
    ELSE LET method == methods[i]
         IN CASE method.access = "throws" ->
                   \* instance[methodName] throws
                   [items |-> acc, raised |-> TRUE]
              [] method.access = "falsy" ->
                   ScanMethods(methods, i + 1, c, kind, acc)
              [] method.access = "primitive" ->
                   \* Reflect.getMetadata on a non-object is a TypeError
                   [items |-> acc, raised |-> TRUE]
              [] method.access = "function" ->
                   IF method.metadata = kind
                   THEN ScanMethods(methods, i + 1, c, kind,
                                    Append(acc, <<c, i>>))
                   ELSE ScanMethods(methods, i + 1, c, kind, acc)

\* components.forEach(...), from component c on.
RECURSIVE ScanComponents(_, _, _, _)
ScanComponents(comps, c, kind, acc) ==
    IF c > Len(comps)
    THEN [items |-> acc, raised |-> FALSE]
    ELSE IF comps[c].instance # "object"
    THEN ScanComponents(comps, c + 1, kind, acc)
    ELSE LET r == ScanMethods(comps[c].methods, 1, c, kind, acc)
         IN IF r.raised THEN r
            ELSE ScanComponents(comps, c + 1, kind, r.items)

\* explore(metadataKey): the discovered items, each the place of its
\* instance and of its method; an exception leaves explore with no result.
explore(comps, kind) == ScanComponents(comps, 1, kind, << >>)

\* exploreResources() / exploreTools() / explorePrompts()
Explore(kind) ==
    /\ LET r == explore(components, kind)
       IN explored' = [kind |-> kind,
                       outcome |-> IF r.raised THEN "raised" ELSE "returned",
                       items |-> IF r.raised THEN << >> ELSE r.items]
    /\ UNCHANGED <<httpVars, regVars, health, components>>

InitExplore ==
    /\ InitHttp
    /\ InitReg
    /\ options = [hasTransport |-> FALSE, transport |-> Absent]
    /\ discovered = [resource |-> << >>, tool |-> << >>, prompt |-> << >>]
    /\ input = NoInput
    /\ components \in ComponentGraphs
    /\ explored = NoScan

NextExplore == \E kind \in Kinds : Explore(kind)

SpecExplore == InitExplore /\ [][NextExplore]_vars

Next ==
    \/ \E c \in Conns : ClientDestroy(c)
    \/ \E c \in Conns : HandleSSE(c)
    \/ \E c \in Conns, o \in ConnectOutcomes : ConnectSettle(c, o)
    \/ \E c \in Conns : CloseListener(c)
    \/ \E c \in Conns, o \in CloseOutcomes : CloseSettle(c, o)
    \/ \E m \in Msgs, q \in QueryValues : HandleMessage(m, q)
    \/ \E m \in Msgs, o \in PostOutcomes : HandlePostMessageSettle(m, o)
    \/ \E now \in Clock : HealthCheck(now)

Init ==
    /\ InitHttp
    /\ InitReg
    /\ options = [hasTransport |-> TRUE, transport |-> "sse"]
    /\ discovered = [resource |-> << >>, tool |-> << >>, prompt |-> << >>]
    /\ input = NoInput
    /\ InitScan

Spec == Init /\ [][Next]_vars

\* A connection whose connect failed had its response finished by the catch
\* block (res.status(500).send(...) or res.end()), so the runtime emits the
\* response's close event and the listener runs, unless the event had been
\* emitted already (CloseListener is then disabled).
ResponseFinished(c) == conn[c].pc = "failed"

CloseEmitted(c) == ResponseFinished(c) /\ CloseListener(c)

\* The steps of the multiplexer alone.
NextLive ==
    \/ \E c \in Conns : ClientDestroy(c)
    \/ \E c \in Conns : HandleSSE(c)
    \/ \E c \in Conns, o \in ConnectOutcomes : ConnectSettle(c, o)
    \/ \E c \in Conns : CloseListener(c)
    \/ \E c \in Conns, o \in CloseOutcomes : CloseSettle(c, o)
    \/ \E m \in Msgs, q \in QueryValues : HandleMessage(m, q)
    \/ \E m \in Msgs, o \in PostOutcomes : HandlePostMessageSettle(m, o)

\* The multiplexer with the close event of every finished response delivered.
SpecLive ==
    Init /\ [][NextLive]_vars /\ \A c \in Conns : WF_vars(CloseEmitted(c))

(***************************************************************************)
(* Every user of the engine handle in one host: the hook's and the host's  *)
(* registrations, the stdio connect and the SSE connects.                  *)
(***************************************************************************)
MaxEngineItems == 1

\* The object graphs of that host: at most MaxEngineItems decorated methods.
EngineGraphs ==
    {d \in [resource : SeqUpTo(BootDefs("resource"), MaxEngineItems),
            tool : SeqUpTo(BootDefs("tool"), MaxEngineItems),
            prompt : SeqUpTo(BootDefs("prompt"), MaxEngineItems)] :
        Len(d.resource) + Len(d.tool) + Len(d.prompt) <= MaxEngineItems}

InitEngine ==
    /\ InitHttp
    /\ InitReg
    /\ options \in ModuleOptions
    /\ discovered \in EngineGraphs
    /\ input = NoInput
    /\ InitScan

NextEngine ==
    \/ BootstrapStart
    \/ RegisterStep
    \/ BootstrapTransport
    \/ \E o \in {"resolved", "rejected"} : StdioConnectSettle(o)
    \/ \E kind \in Kinds : \E d \in DirectDefs(kind) : DirectRegister(kind, d)
    \/ \E c \in Conns : HandleSSE(c)
    \/ \E c \in Conns, o \in ConnectOutcomes : ConnectSettle(c, o)

SpecEngine == InitEngine /\ [][NextEngine]_vars

(***************************************************************************)
(* The multiplexer in a host whose McpService gives no engine: getServer   *)
(* returns undefined (an overridden provider), and a middleware may have   *)
(* flushed the response headers before handleSSE runs.                     *)
(***************************************************************************)
InitNoEngine ==
    /\ transports = << >>
    /\ uuidCount = 0
    /\ server = NoServer
    /\ conn \in [Conns -> {NewConn, [NewConn EXCEPT !.headersSent = TRUE]}]
    /\ msg = [m \in Msgs |-> IdleMsg]
    /\ health = NoHealth
    /\ InitReg
    /\ options = [hasTransport |-> TRUE, transport |-> "sse"]
    /\ discovered = [resource |-> << >>, tool |-> << >>, prompt |-> << >>]
    /\ input = NoInput
    /\ InitScan

NextNoEngine ==
    \/ \E c \in Conns : ClientDestroy(c)
    \/ \E c \in Conns : HandleSSE(c)
    \/ \E c \in Conns : CloseListener(c)
    \/ \E c \in Conns, o \in CloseOutcomes : CloseSettle(c, o)
    \/ \E m \in Msgs, q \in QueryValues : HandleMessage(m, q)
    \/ \E m \in Msgs, o \in PostOutcomes : HandlePostMessageSettle(m, o)

SpecNoEngine == InitNoEngine /\ [][NextNoEngine]_vars

(***************************************************************************)
(* Properties of the Session Transport Multiplexer.                        *)
(***************************************************************************)
\* A connection on which handleSSE has run and whose close signal has not
\* been handled yet.
IsOpen(c) == conn[c].listener /\ ~conn[c].closed

\* C1: handleMessage on a request whose sessionId is absent or empty answers
\* 400, delegates to no transport and leaves the registry as it was.
C1_MissingSessionIdIs400 ==
    [][\A m \in Msgs, q \in {Absent, ""} :
         HandleMessage(m, q) =>
           /\ msg'[m].pc = "done"
           /\ msg'[m].status = 400
           /\ msg'[m].by = "service"
           /\ msg'[m].target = Undefined
           /\ transports' = transports]_vars

\* C1 witness: a 400 was answered for an empty sessionId while a session was
\* registered.
C1_Witness ==
    \E m \in Msgs :
        /\ msg[m].pc = "done"
        /\ msg[m].query = ""
        /\ msg[m].status = 400
        /\ DOMAIN transports # {}

\* C2: handleMessage on a non-empty sessionId that is not the id of a session
\* held in the registry (stale or forged) answers 404 and delegates to no
\* transport.
C2_UnknownSessionIdIs404 ==
    [][\A m \in Msgs, q \in QueryValues :
         (HandleMessage(m, q) /\ ~Falsy(q) /\ q \notin DOMAIN transports) =>
           /\ msg'[m].pc = "done"
           /\ msg'[m].status = 404
           /\ msg'[m].target = Undefined]_vars

\* C3: once the close signal of a session has been handled its entry never
\* reappears, and every handleMessage for it that starts afterwards answers
\* 404 and is not delegated.
C3_ClosedSessionIs404 ==
    /\ [](\A c \in Conns :
            conn[c].closed => conn[c].sessionId \notin DOMAIN transports)
    /\ [][\A c \in Conns, m \in Msgs :
            (conn[c].closed /\ HandleMessage(m, conn[c].sessionId)) =>
              /\ msg'[m].pc = "done"
              /\ msg'[m].status = 404
              /\ msg'[m].target = Undefined]_vars

\* C3 witness: a request for the id of a closed session was answered 404.
C3_Witness ==
    \E c \in Conns, m \in Msgs :
        /\ conn[c].closed
        /\ msg[m].pc = "done"
        /\ msg[m].query = conn[c].sessionId
        /\ msg[m].status = 404

\* C4: the registry holds exactly one entry per connection that has been
\* opened and not yet closed, keyed by that connection's sessionId and
\* mapping to that connection's transport; N open connections are N
\* distinct entries.
C4_RegistryIsOpenConnections ==
    /\ DOMAIN transports = {conn[c].sessionId : c \in {d \in Conns : IsOpen(d)}}
    /\ \A c \in Conns : IsOpen(c) => transports[conn[c].sessionId] = c
    /\ Cardinality(DOMAIN transports) = Cardinality({c \in Conns : IsOpen(c)})

\* C4 witness: two connections are open at once, after another was closed or
\* not.
C4_Witness ==
    \E c, d \in Conns :
        /\ c # d
        /\ IsOpen(c) /\ IsOpen(d)
        /\ conn[c].pc = "connecting" /\ conn[d].pc = "connecting"

\* C5: the close signal of connection k removes only k's entry; every other
\* open session keeps its entry through every step that is not its own
\* close, and a handleMessage for it is delegated to its own transport.
C5_CloseRemovesOnlyOwnEntry ==
    /\ [][\A k \in Conns :
            CloseListener(k) =>
              \A key \in (DOMAIN transports) \ {conn[k].sessionId} :
                  key \in DOMAIN transports' /\ transports'[key] = transports[key]]_vars
    /\ [][\A j \in Conns :
            (IsOpen(j) /\ ~conn'[j].closed) =>
              /\ conn'[j].sessionId = conn[j].sessionId
              /\ conn[j].sessionId \in DOMAIN transports'
              /\ transports'[conn[j].sessionId] = j]_vars
    /\ [][\A j \in Conns, m \in Msgs :
            (IsOpen(j) /\ HandleMessage(m, conn[j].sessionId)) =>
              /\ msg'[m].pc = "awaiting"
              /\ msg'[m].target = j]_vars

\* C5 witness: one connection is closed, another is open and has a request
\* delegated to its transport.
C5_Witness ==
    \E k, j \in Conns, m \in Msgs :
        /\ k # j
        /\ conn[k].closed
        /\ IsOpen(j)
        /\ msg[m].pc = "awaiting"
        /\ msg[m].query = conn[j].sessionId
        /\ msg[m].target = j

\* C6 as claimed: handleMessage never has a delegated post-message handler
\* in flight on a transport whose entry has been deleted and whose close()
\* has been started.
C6_NoHandlerInFlightOnClosedTransport ==
    \A m \in Msgs :
        msg[m].pc = "awaiting" =>
            ~(/\ conn[msg[m].target].sessionId \notin DOMAIN transports
              /\ conn[msg[m].target].transportClose # "none")

\* C6 amended: the close-triggered delete never falls between the lookup and
\* its dereference: whenever handleMessage starts the post-message handler
\* on a transport, that transport's entry is in the registry under the
\* requested id and its close() has not been started.
C6_LookupAndDereferenceAtomic ==
    [][\A m \in Msgs, q \in QueryValues :
         (HandleMessage(m, q) /\ msg'[m].pc = "awaiting") =>
           /\ q \in DOMAIN transports
           /\ transports[q] = msg'[m].target
           /\ transports' = transports
           /\ ~conn[msg'[m].target].closed
           /\ conn[msg'[m].target].transportClose = "none"]_vars

\* C6 witness: a post-message handler is in flight on the transport of a
\* connected, registered session.
C6_Witness ==
    \E m \in Msgs :
        /\ msg[m].pc = "awaiting"
        /\ conn[msg[m].target].pc = "connected"
        /\ IsOpen(msg[m].target)
        /\ msg[m].query \in DOMAIN transports

(***************************************************************************)
(* Properties of the Registration Coordinator and the Bootstrap Hook.      *)
(***************************************************************************)
\* Whether the log holds an entry.
Logged(level, tag) == \E i \in 1 .. Len(logs) : logs[i] = <<level, tag>>

\* A definition object whose name is absent or empty.
Nameless(definitionOpt) ==
    definitionOpt # None /\ Falsy(definitionOpt[1].name)

\* C7: for each kind, an attempt to register a definition whose name is
\* absent or empty makes no engine call and leaves the engine's
\* registrations as they were, whether the attempt is a direct call of the
\* register operation or an iteration of the bootstrap hook.
C7_NamelessNeverReachesEngine ==
    /\ [][\A kind \in Kinds : \A d \in DirectDefs(kind) :
            (Nameless(d) /\ DirectRegister(kind, d)) =>
              /\ engine' = engine
              /\ calls' = calls
              /\ direct'.outcome = "void"]_vars
    /\ [][(/\ boot.pc \in Kinds
           /\ Nameless(discovered[boot.pc][boot.idx])
           /\ RegisterStep) =>
              /\ engine' = engine
              /\ calls' = calls
              /\ boot'.pc # "raised"]_vars
    /\ [](\A r \in engine : ~Falsy(r.call.name))

\* C7 witness: with registrations in the engine, the hook has skipped a
\* nameless resource and a nameless tool or prompt, and a direct
\* registerTool call was skipped for its missing name.
C7_Witness ==
    /\ engine # {}
    /\ Logged("warn", "resource missing name")
    /\ Logged("warn", "handler missing name in options")
    /\ direct.kind = "tool"
    /\ Logged("warn", "tool missing name")

\* A discovered definition that is valid for its kind: it has a name and,
\* for a template resource, a uriTemplate of a usable type.
ValidDefinition(kind, definitionOpt) ==
    /\ definitionOpt # None
    /\ ~Falsy(definitionOpt[1].name)
    /\ (kind = "resource" /\ definitionOpt[1].hasUriTemplate) =>
           definitionOpt[1].uriTemplateType \in {"string", "ResourceTemplate"}

ValidNames(kind) ==
    {discovered[kind][i][1].name :
        i \in {j \in 1 .. Len(discovered[kind]) :
                  ValidDefinition(kind, discovered[kind][j])}}

RegisteredNames(kind) == {r.call.name : r \in {x \in engine : x.call.op = kind}}

\* C8: after onApplicationBootstrap, for every kind the engine holds exactly
\* one entry for each distinct name carried by a discovered method with a
\* valid definition of that kind (a duplicate name loses or is rejected,
\* the other definitions are still registered).
C8_OneEntryPerDiscoveredName ==
    (boot.pc \in {"done", "raised"} /\ direct.count = 0) =>
        \A kind \in Kinds :
            /\ RegisteredNames(kind) = ValidNames(kind)
            /\ \A n \in ValidNames(kind) :
                   Cardinality({r \in engine :
                       r.call.op = kind /\ r.call.name = n}) = 1

\* C9: onApplicationBootstrap never raises, whatever was discovered.
C9_BootstrapNeverRaises == boot.pc # "raised"

\* The prompt definition a host registered directly, and its arguments.
InputArguments == input.def[1].arguments
NamedArguments ==
    {i \in 1 .. Len(InputArguments) : ~Falsy(InputArguments[i].name)}
LastNamed(k) ==
    CHOOSE i \in NamedArguments :
        /\ InputArguments[i].name = k
        /\ \A j \in NamedArguments : InputArguments[j].name = k => j <= i
PromptWithSchema(r) ==
    r.ns = "prompt" /\ r.call.form = "name,description,schema,handler"

\* The example of the claim: arguments [{name:a,required:true},
\* {name:b,required:false}] accept {a:x} and reject {}.
C10_Example ==
    (/\ input.kind = "prompt"
     /\ input.def # None
     /\ input.def[1].hasArguments
     /\ Len(InputArguments) = 2
     /\ InputArguments[1].name = "a" /\ InputArguments[1].required = "true"
     /\ InputArguments[2].name = "b" /\ InputArguments[2].required = "false"
     /\ request.verdict # "none") =>
        /\ (DOMAIN request.args = {"a"} => request.verdict = "accepted")
        /\ (DOMAIN request.args = {} => request.verdict = "rejected")

\* C10 as claimed: the synthesized schema has one string entry per named
\* argument, mandatory exactly when that argument's required flag is true.
C10_SchemaEntryPerArgument ==
    /\ \A r \in engine :
          PromptWithSchema(r) =>
            /\ DOMAIN r.call.schema =
                  {InputArguments[i].name : i \in NamedArguments}
            /\ \A i \in NamedArguments :
                  (~r.call.schema[InputArguments[i].name].optional)
                      <=> (InputArguments[i].required = "true")
    /\ C10_Example

\* C10 amended: the synthesized schema has one string entry per distinct
\* argument name, mandatory exactly when the last argument carrying that
\* name has required true (optional also when required is omitted); a
\* request is accepted exactly when it carries every mandatory name.
C10_SchemaEntryPerArgumentName ==
    /\ \A r \in engine :
          PromptWithSchema(r) =>
            /\ DOMAIN r.call.schema =
                  {InputArguments[i].name : i \in NamedArguments}
            /\ \A k \in DOMAIN r.call.schema :
                  (~r.call.schema[k].optional)
                      <=> (InputArguments[LastNamed(k)].required = "true")
            /\ (request.verdict # "none" /\ request.name = r.key) =>
                  ((request.verdict = "accepted") <=>
                     \A i \in NamedArguments :
                        (i = LastNamed(InputArguments[i].name)
                         /\ InputArguments[i].required = "true")
                            => InputArguments[i].name \in DOMAIN request.args)
    /\ C10_Example

\* C10 witness: the prompt of the example is registered and a request with
\* no arguments was rejected.
C10_Witness ==
    /\ \E r \in engine : PromptWithSchema(r)
    /\ Len(InputArguments) = 2
    /\ InputArguments[1].name = "a" /\ InputArguments[1].required = "true"
    /\ InputArguments[2].name = "b" /\ InputArguments[2].required = "false"
    /\ DOMAIN request.args = {}
    /\ request.verdict = "rejected"

\* The definition of the kind the host registers directly, when it is a
\* definition object with a name.
NamedInput(kind) ==
    /\ input.kind = kind
    /\ input.def # None
    /\ ~Falsy(input.def[1].name)

\* The argument list a tool definition calls for: the cell of the matrix
\* (non-empty shape present or not) x (description present or not).
ToolForm(definition) ==
    LET hasShape == definition.paramsSchema \notin {Absent, "{}"}
        hasDescription == definition.description \notin {Absent, ""}
    IN CASE hasShape /\ hasDescription -> "name,description,shape,handler"
         [] hasShape /\ ~hasDescription -> "name,shape,handler"
         [] ~hasShape /\ hasDescription -> "name,description,handler"
         [] OTHER -> "name,handler"

\* C11: every registerTool call on a named tool definition makes exactly one
\* engine call, with the argument list of the definition's cell of the
\* shape x description matrix, and passes the shape and the description
\* only when they are present and non-empty.
C11_ToolCallMatchesMatrix ==
    NamedInput("tool") =>
        /\ Len(calls) = direct.count
        /\ \A j \in 1 .. Len(calls) :
             LET call == calls[j]
                 definition == input.def[1]
             IN /\ call.op = "tool"
                /\ call.name = definition.name
                /\ call.form = ToolForm(definition)
                /\ call.shape \notin {"{}"}
                /\ call.description \notin {""}
                /\ (call.shape # Absent) =>
                       (/\ call.shape = definition.paramsSchema
                        /\ call.form \in {"name,description,shape,handler",
                                          "name,shape,handler"})
                /\ (call.description # Absent) =>
                       (/\ call.description = definition.description
                        /\ call.form \in {"name,description,shape,handler",
                                          "name,description,handler"})

\* C11 witness: a tool with an empty shape object and an empty description
\* was registered by the two-argument call.
C11_Witness ==
    /\ NamedInput("tool")
    /\ input.def[1].paramsSchema = "{}"
    /\ input.def[1].description = ""
    /\ Len(calls) = 1
    /\ calls[1].form = "name,handler"
    /\ engine # {}

\* C12: a register operation returns the value of the engine call whenever
\* it made one (and the call did not raise), and returns nothing only when
\* it made none.
C12_ReturnsEngineValueWhenRegistering ==
    direct.count = 1 =>
        /\ (direct.outcome = "void") => calls = << >>
        /\ (direct.outcome = "value") => Len(calls) = 1

\* What the engine holds after registerResource: a template registration,
\* a registration against an exact uri.
TemplateRegistered == \E r \in engine : r.ns = "resourceTemplate"
FixedRegistered == \E r \in engine : r.ns = "resource"

\* The metadata every engine call passes is the definition's, or an empty
\* object when the definition has none.
MetadataPassed ==
    \A j \in 1 .. Len(calls) :
        calls[j].metadata = IF input.def[1].metadata = Absent
                            THEN "{}" ELSE input.def[1].metadata

\* C13 as claimed: registerResource on a named definition registers a
\* URI-template resource if and only if the definition carries a
\* uriTemplate field, and otherwise registers against the exact uri, never
\* both ways, with the definition's metadata or an empty object.
C13_TemplateIffUriTemplateField ==
    (NamedInput("resource") /\ direct.count > 0) =>
        /\ TemplateRegistered <=> input.def[1].hasUriTemplate
        /\ FixedRegistered <=> ~input.def[1].hasUriTemplate
        /\ ~(TemplateRegistered /\ FixedRegistered)
        /\ MetadataPassed

\* C13 amended: registerResource on a named definition registers a
\* URI-template resource exactly when the definition carries a uriTemplate
\* that is a string or a ResourceTemplate, and registers against the exact
\* uri exactly when it carries no uriTemplate field and has a uri. A
\* uriTemplate of another type is logged as an error and registers
\* nothing; a definition with neither field is passed on with an undefined
\* uri, which the engine files as a template under the definition's name.
\* One engine call is made per registerResource call that registers, in
\* the template form exactly when the field is there; never both ways,
\* with the definition's metadata or an empty object.
C13_TemplateIffUsableUriTemplate ==
    (NamedInput("resource") /\ direct.count > 0) =>
        LET definition == input.def[1]
            usable == /\ definition.hasUriTemplate
                      /\ definition.uriTemplateType
                            \in {"string", "ResourceTemplate"}
            invalid == definition.hasUriTemplate /\ ~usable
            neither == ~definition.hasUriTemplate /\ definition.uri = Absent
        IN /\ TemplateRegistered <=> (usable \/ neither)
           /\ FixedRegistered <=>
                 (~definition.hasUriTemplate /\ definition.uri # Absent)
           /\ ~(TemplateRegistered /\ FixedRegistered)
           /\ Cardinality(engine) = IF invalid THEN 0 ELSE 1
           /\ \A r \in engine :
                 r.key = IF r.ns = "resource" THEN definition.uri
                         ELSE definition.name
           /\ Len(calls) = IF invalid THEN 0 ELSE direct.count
           /\ \A j \in 1 .. Len(calls) :
                /\ calls[j].op = "resource"
                /\ calls[j].name = definition.name
                /\ calls[j].isTemplate <=> definition.hasUriTemplate
                /\ calls[j].isTemplate =>
                     /\ calls[j].form = "name,template,metadata,handler"
                     /\ calls[j].target = definition.uriTemplate
                /\ ~calls[j].isTemplate =>
                     /\ calls[j].form = "name,uri,metadata,handler"
                     /\ calls[j].target = definition.uri
           /\ MetadataPassed
           /\ invalid => Logged("error", "invalid uriTemplate type")

\* C13 witness: a definition carrying a ResourceTemplate instance and no
\* metadata was registered as a template with empty metadata.
C13_Witness ==
    /\ NamedInput("resource")
    /\ input.def[1].uriTemplateType = "ResourceTemplate"
    /\ input.def[1].metadata = Absent
    /\ Len(calls) = 1
    /\ calls[1].isTemplate
    /\ calls[1].metadata = "{}"
    /\ \E r \in engine : r.ns = "resourceTemplate"

\* The place of a kind in the order resources, tools, prompts.
KindRank(kind) ==
    CASE kind = "resource" -> 1 [] kind = "tool" -> 2 [] kind = "prompt" -> 3

\* An engine call made by the hook: it carries the place of its item in
\* discovery order as handler, where a host's own call carries 0.
IsHookCall(call) == call.handler # 0

\* The engine calls one discovered item gives rise to, whatever the engine
\* holds (the hook passes the item's place in discovery order as handler).
CallsOf(kind, i) ==
    RegisterDiscovered(kind, {}, discovered[kind][i], i).calls

\* C14: during onApplicationBootstrap the engine calls are made for the
\* resources first, then the tools, then the prompts, within a kind in
\* discovery order; each call is a function of its discovered item alone;
\* no connect is attempted while items are being registered, and once the
\* stdio connect has been attempted every call the discovered items give
\* rise to has been made.
C14_RegistrationOrder ==
    LET hookCalls == SelectSeq(calls, IsHookCall)
    IN  /\ \A i, j \in 1 .. Len(hookCalls) :
             i < j =>
               \/ KindRank(hookCalls[i].op) < KindRank(hookCalls[j].op)
               \/ /\ hookCalls[i].op = hookCalls[j].op
                  /\ hookCalls[i].handler < hookCalls[j].handler
        /\ \A j \in 1 .. Len(hookCalls) :
             /\ hookCalls[j].handler
                   \in 1 .. Len(discovered[hookCalls[j].op])
             /\ <<hookCalls[j]>> =
                   CallsOf(hookCalls[j].op, hookCalls[j].handler)
        /\ boot.pc = "idle" => hookCalls = << >>
        /\ boot.pc \in Kinds \cup {"idle", "registered", "raised"} =>
             boot.stdio = "none"
        /\ boot.stdio # "none" =>
             \A kind \in Kinds : \A i \in 1 .. Len(discovered[kind]) :
                 CallsOf(kind, i) # << >> =>
                    \E j \in 1 .. Len(hookCalls) :
                        hookCalls[j].op = kind /\ hookCalls[j].handler = i

\* C14 witness: the stdio connect is being attempted after a resource, a
\* tool and a prompt were registered in that order.
C14_Witness ==
    /\ boot.stdio = "connecting"
    /\ Len(calls) = 3
    /\ calls[1].op = "resource"
    /\ calls[2].op = "tool"
    /\ calls[3].op = "prompt"

\* options.transport === TransportType.STDIO, for options carrying the field.
StdioConfigured == options.hasTransport /\ options.transport = "stdio"

\* C15: once onApplicationBootstrap has ended, the stdio connect was
\* attempted if and only if the configured transport is stdio.
C15_ConnectIffStdio ==
    boot.pc \in {"done", "raised"} =>
        ((boot.stdio # "none") <=> StdioConfigured)

\* C16: when the stdio connect fails during bootstrap, onApplicationBootstrap
\* completes normally, the failure is logged, and every registration the
\* hook made is still in the engine.
C16_StdioFailureIsNotFatal ==
    boot.stdio = "failed" =>
        /\ boot.pc = "done"
        /\ Logged("error", "stdio connect failed")
        /\ \A j \in 1 .. Len(calls) :
             calls[j].handler # 0 =>
                \E r \in engine : r.call = calls[j]

\* C16 witness: the stdio connect failed with registrations in the engine.
C16_Witness ==
    /\ boot.stdio = "failed"
    /\ boot.pc = "done"
    /\ Cardinality(engine) >= 2

\* The engine call j is the first one made for its key.
FirstForKey(j) ==
    \A i \in 1 .. (j - 1) :
        \/ EngineNamespace(calls[i]) # EngineNamespace(calls[j])
        \/ EngineKey(calls[i]) # EngineKey(calls[j])

\* C20: whatever was attempted since (skipped definitions, engine calls
\* that raised, a bootstrap that ended by an exception), the engine holds
\* the registration of every key's first call, as that call made it, and
\* nothing else.
C20_EarlierRegistrationsKept ==
    /\ \A j \in 1 .. Len(calls) :
          FirstForKey(j) =>
             [ns |-> EngineNamespace(calls[j]), key |-> EngineKey(calls[j]),
              call |-> calls[j]] \in engine
    /\ \A r \in engine :
          \E j \in 1 .. Len(calls) : FirstForKey(j) /\ r.call = calls[j]

\* C20 witness: the bootstrap ended by an exception after two registrations
\* and a skipped definition.
C20_Witness ==
    /\ boot.pc = "raised"
    /\ Cardinality(engine) = 1
    /\ Len(calls) = 2
    /\ \E i \in 1 .. Len(logs) : logs[i][1] = "warn"

(***************************************************************************)
(* Properties of the engine handle, discovery and the health operation.    *)
(***************************************************************************)
\* C17: the engine instance the constructor built is never replaced, and
\* every user of the engine works on it: each SSE transport's connect and
\* the stdio connect, which get it from getServer, and each engine call of
\* a registration, made by the hook or by the host itself.
C17_OneEngineInstance ==
    /\ server = TheServer
    /\ \A c \in Conns :
          conn[c].pc \in {"connecting", "connected", "failed"} =>
             conn[c].engineUsed = TheServer
    /\ boot.stdio # "none" => boot.engineUsed = TheServer
    /\ (\E j \in 1 .. Len(calls) : IsHookCall(calls[j])) =>
          boot.registeredOn = TheServer
    /\ (\E j \in 1 .. Len(calls) : ~IsHookCall(calls[j])) =>
          direct.engineUsed = TheServer
    /\ {boot.engineUsed, boot.registeredOn, direct.engineUsed}
          \subseteq {NoServer, TheServer}

\* C17 witness: the hook and the host have each registered something, the
\* stdio connect was made, and two SSE transports are connected, all on
\* the one engine.
C17_Witness ==
    /\ \A c \in Conns : conn[c].pc = "connected"
    /\ \A c \in Conns : conn[c].engineUsed = TheServer
    /\ boot.stdio = "connected"
    /\ boot.engineUsed = TheServer
    /\ boot.registeredOn = TheServer
    /\ direct.engineUsed = TheServer
    /\ Cardinality(engine) = 2

\* The methods explore(kind) is to emit: on every ordinary instance, every
\* readable method carrying the metadata of the kind.
Annotated(kind) ==
    {<<c, i>> \in (1 .. Len(components)) \X (1 .. MaxMethods) :
        /\ components[c].instance = "object"
        /\ i <= Len(components[c].methods)
        /\ components[c].methods[i].access = "function"
        /\ components[c].methods[i].metadata = kind}

\* C18: explore(kind) returns, and returns exactly the annotated methods of
\* the kind on the ordinary instances, whatever the other instances are and
\* however reading the other methods ends.
C18_ScanSurvivesFailures ==
    explored.outcome # "none" =>
        /\ explored.outcome = "returned"
        /\ {explored.items[j] : j \in 1 .. Len(explored.items)}
              = Annotated(explored.kind)

\* C19: every health call returns status "ok" and an ISO-8601 timestamp
\* whatever the session registry holds, and changes nothing but the
\* response it gives: not the registry, the transports, the engine or its
\* registrations.
IsDigit(ch) == \E d \in 1 .. Len(DigitChars) : DigitChars[d] = ch

\* The number a sequence of digit characters spells.
RECURSIVE DigitsValue(_)
DigitsValue(chars) ==
    IF chars = << >> THEN 0
    ELSE 10 * DigitsValue(SubSeq(chars, 1, Len(chars) - 1))
         + (CHOOSE d \in 0 .. 9 : DigitChars[d + 1] = chars[Len(chars)])

\* YYYY-MM-DDTHH:mm:ss.sssZ with every field in range.
IsISO8601(t) ==
    /\ Len(t) = 24
    /\ t[5] = "-" /\ t[8] = "-" /\ t[11] = "T"
    /\ t[14] = ":" /\ t[17] = ":" /\ t[20] = "." /\ t[24] = "Z"
    /\ \A k \in (1 .. 23) \ {5, 8, 11, 14, 17, 20} : IsDigit(t[k])
    /\ DigitsValue(SubSeq(t, 6, 7)) \in 1 .. 12
    /\ DigitsValue(SubSeq(t, 9, 10)) \in 1 .. 31
    /\ DigitsValue(SubSeq(t, 12, 13)) \in 0 .. 23
    /\ DigitsValue(SubSeq(t, 15, 16)) \in 0 .. 59
    /\ DigitsValue(SubSeq(t, 18, 19)) \in 0 .. 59

C19_HealthIsOkAndPure ==
    /\ [](health # NoHealth =>
            /\ health.status = "ok"
            /\ IsISO8601(health.timestamp))
    /\ [][\A now \in Clock :
            HealthCheck(now) =>
              /\ health'.status = "ok"
              /\ IsISO8601(health'.timestamp)
              /\ transports' = transports
              /\ conn' = conn
              /\ msg' = msg
              /\ server' = server
              /\ engine' = engine
              /\ calls' = calls]_vars

\* C19 witness: health answered at a later instant while one session was
\* registered, one had been closed and a message handler was in flight.
C19_Witness ==
    /\ health.status = "ok"
    /\ health.timestamp = toISOString(90061001)
    /\ health.timestamp[10] = "2"
    /\ DOMAIN transports # {}
    /\ \E c \in Conns : conn[c].closed
    /\ \E m \in Msgs : msg[m].pc = "awaiting"

(***************************************************************************)
(* Error paths of the multiplexer and of the registration coordinator.     *)
(***************************************************************************)
\* C21: when getServer gives no engine, handleSSE attempts no connect,
\* sends status 500 exactly when no headers had been sent, and leaves no
\* registry entry for the session.
C21_NoEngineNoSession ==
    [][\A c \in Conns :
         (HandleSSE(c) /\ getServer = NoServer) =>
           /\ conn'[c].pc = "returned"
           /\ conn'[c].engineUsed = NoServer
           /\ (conn'[c].status = 500) <=> ~conn[c].headersSent
           /\ conn'[c].sessionId \notin DOMAIN transports']_vars

\* C22: a push connection whose connect failed ended handleSSE normally
\* with the failure logged: it was answered with status 500 when no headers
\* had been sent (an answer that goes nowhere when the client had already
\* disconnected), and when the transport had already sent its headers the
\* stream was ended with no 500 set.
C22_ConnectFailureAnswered ==
    \A c \in Conns :
        conn[c].pc = "failed" =>
            /\ conn[c].errorLogged
            /\ \/ conn[c].status = 500 /\ ~conn[c].ended
               \/ conn[c].status = 200 /\ conn[c].ended /\ conn[c].headersSent
            /\ ~conn[c].headersSent => conn[c].destroyed

\* C22 witness: one connect failed before any header and was answered 500,
\* another failed after the headers and had its stream ended.
C22_Witness ==
    /\ \E c \in Conns :
          conn[c].pc = "failed" /\ conn[c].status = 500 /\ ~conn[c].ended
    /\ \E c \in Conns :
          conn[c].pc = "failed" /\ conn[c].status = 200 /\ conn[c].ended

\* C23: no registry entry refers to a transport on which close() has been
\* called: a session whose close() was started, resolved or rejected has
\* no entry, a rejection of close() is logged, and the sessions still open
\* keep their own entries through it.
C23_NoEntryOnClosingTransport ==
    /\ \A k \in DOMAIN transports :
          conn[transports[k]].transportClose = "none"
    /\ \A c \in Conns :
          /\ conn[c].transportClose # "none" =>
                /\ conn[c].closed
                /\ conn[c].sessionId \notin DOMAIN transports
          /\ conn[c].transportClose = "rejected" => conn[c].errorLogged
          /\ IsOpen(c) =>
                /\ conn[c].sessionId \in DOMAIN transports
                /\ transports[conn[c].sessionId] = c

\* C23 witness: the close() of one session was rejected while another
\* session is still registered.
C23_Witness ==
    /\ \E c \in Conns : conn[c].transportClose = "rejected"
    /\ \E c \in Conns : IsOpen(c) /\ conn[c].pc = "connected"

\* C24: a message for a registered sessionId is delegated to the transport
\* of that session and no other; when the delegated handler raised,
\* handleMessage ended normally with the error logged, answering 500
\* itself exactly when the transport had sent no response.
C24_DelegatesToOwnTransport ==
    \A m \in Msgs :
        msg[m].target \in Conns =>
            /\ conn[msg[m].target].sessionId = msg[m].query
            /\ msg[m].pc = "awaiting" => msg[m].by = "none"
            /\ msg[m].pc = "done" =>
                  \/ /\ msg[m].by = "transport"
                     /\ msg[m].logged \in {"none", "error"}
                  \/ /\ msg[m].by = "service"
                     /\ msg[m].status = 500
                     /\ msg[m].logged = "error"

\* C24 witness: with two sessions registered, a handler delegated for the
\* second one raised before any response and the service answered 500.
C24_Witness ==
    /\ Cardinality(DOMAIN transports) = 2
    /\ \E m \in Msgs :
          /\ msg[m].pc = "done"
          /\ msg[m].query = randomUUID(1)
          /\ msg[m].target \in Conns
          /\ msg[m].by = "service"
          /\ msg[m].status = 500

\* C28: no step of handleMessage changes the registry, whatever its
\* outcome; a step that changes the registry is handleSSE's insert or the
\* close listener's delete.
C28_OnlyOpenAndCloseChangeRegistry ==
    /\ [][\A m \in Msgs, q \in QueryValues :
            HandleMessage(m, q) => transports' = transports]_vars
    /\ [][\A m \in Msgs, o \in PostOutcomes :
            HandlePostMessageSettle(m, o) => transports' = transports]_vars
    /\ [][transports' # transports =>
            \E c \in Conns :
               \/ /\ HandleSSE(c)
                  /\ transports' = RegistryInsert(transports,
                                                 conn'[c].sessionId, c)
               \/ /\ CloseListener(c)
                  /\ transports' = RegistryDelete(transports,
                                                 conn[c].sessionId)]_vars

\* C28 witness: with a session registered, messages have ended in 404 and
\* in 500 after a delegated handler raised.
C28_Witness ==
    /\ DOMAIN transports # {}
    /\ \E m \in Msgs : msg[m].pc = "done" /\ msg[m].status = 404
    /\ \E m \in Msgs :
          /\ msg[m].pc = "done"
          /\ msg[m].status = 500
          /\ msg[m].query \in DOMAIN transports

\* C25: registerResource on a named definition that carries a uriTemplate
\* which is neither a string nor a ResourceTemplate makes no engine call,
\* registers nothing, logs the error once per attempt and returns nothing
\* instead of raising.
C25_InvalidTemplateTypeSkipped ==
    (/\ NamedInput("resource")
     /\ input.def[1].hasUriTemplate
     /\ input.def[1].uriTemplateType \notin {"string", "ResourceTemplate"}
     /\ direct.count > 0) =>
        /\ calls = << >>
        /\ engine = {}
        /\ direct.outcome = "void"
        /\ Len(logs) = direct.count
        /\ \A i \in 1 .. Len(logs) :
              logs[i] = <<"error", "invalid uriTemplate type">>

\* C25 witness: a named template definition whose uriTemplate is a number,
\* with metadata, went through registerResource and nothing was registered.
C25_Witness ==
    /\ NamedInput("resource")
    /\ input.def[1].hasUriTemplate
    /\ input.def[1].uriTemplateType = "number"
    /\ input.def[1].metadata = "m"
    /\ direct.count = 1
    /\ direct.outcome = "void"
    /\ engine = {}

\* The prompt definition the host registers has no usable argument: the
\* list is absent, empty, or made of arguments without a name.
ZeroArgumentPrompt ==
    \/ ~input.def[1].hasArguments
    \/ NamedArguments = {}

\* C26: every registerPrompt call on a named prompt definition makes exactly
\* one engine call and the prompt ends up registered once; arguments
\* without a name are left out of the schema with a warning each, and when
\* the list is absent, empty or all its arguments are left out, the call
\* is the three-argument one (name, description, handler) with no schema.
C26_PromptAlwaysRegistered ==
    (NamedInput("prompt") /\ direct.count > 0) =>
        /\ Len(calls) = direct.count
        /\ Cardinality({r \in engine : r.ns = "prompt"}) = 1
        /\ \A r \in engine : r.key = input.def[1].name
        /\ direct.count = 1 => direct.outcome = "value"
        /\ \A j \in 1 .. Len(calls) :
              /\ calls[j].op = "prompt"
              /\ calls[j].name = input.def[1].name
              /\ IF ZeroArgumentPrompt
                 THEN /\ calls[j].form = "name,description,handler"
                      /\ calls[j].schema = << >>
                 ELSE /\ calls[j].form = "name,description,schema,handler"
                      /\ DOMAIN calls[j].schema =
                            {InputArguments[i].name : i \in NamedArguments}
        /\ Logged("warn", "prompt argument without name") <=>
              /\ input.def[1].hasArguments
              /\ \E i \in 1 .. Len(InputArguments) :
                    Falsy(InputArguments[i].name)

\* C26 witness: a prompt whose two arguments both lack a name was
\* registered by the three-argument call.
C26_Witness ==
    /\ NamedInput("prompt")
    /\ input.def[1].hasArguments
    /\ Len(InputArguments) = 2
    /\ NamedArguments = {}
    /\ Len(calls) = 1
    /\ calls[1].form = "name,description,handler"
    /\ direct.outcome = "value"
    /\ \E r \in engine : r.ns = "prompt"

\* C27: an entry is in the registry only with its connection's close
\* listener installed; the close of a connection's stream removes its
\* entry for good; and a connection whose connect failed does not keep an
\* entry forever: its entry is eventually removed and stays removed.
C27_EntriesEventuallyRemoved ==
    /\ [](\A k \in DOMAIN transports :
             /\ conn[transports[k]].listener
             /\ ~conn[transports[k]].closed
             /\ conn[transports[k]].sessionId = k)
    /\ [][\A c \in Conns :
             CloseListener(c) =>
                conn[c].sessionId \notin DOMAIN transports']_vars
    /\ \A c \in Conns :
          (conn[c].pc = "failed") ~>
             [](conn[c].closed /\ conn[c].sessionId \notin DOMAIN transports)

====
